---- MODULE Spec2Model ----
(***************************************************************************)
(* Equine Oracle: the accuracy-tracking / auto-retraining feedback loop,   *)
(* the scheduled prediction cycle, the accuracy validator and the ensemble *)
(* combiner, modelled from the TypeScript sources.                         *)
(*                                                                         *)
(* Nine specifications share the variables; each moves one component and   *)
(* leaves the others at their constructed state:                           *)
(*   Spec          AutoRetrainingEngine: manual triggers, jobs, cooldown   *)
(*   SpecLive      the same jobs, with every started job coming to an end  *)
(*   SpecCheck     AutoRetrainingEngine: the scheduled checkAndRetrain     *)
(*   SpecMetrics   MetricsService: recorded predictions, optimal weights   *)
(*   SpecAgent     ContinuousPredictionAgent                               *)
(*   SpecValidator AccuracyValidator over the monitoring tables            *)
(*   SpecEnsemble  EnsemblePredictor.predictRace                           *)
(*   SpecSync      SimpleSyncScheduler: sync jobs, timers, retries         *)
(*   SpecCollector ResultCollector: collection cycles, matching, metrics   *)
(*                                                                         *)
(* Time is counted in whole hours (Date.now() / 3600000); percentages and  *)
(* scores are fixed-point integers, the scale is given where they appear.  *)
(***************************************************************************)
EXTENDS Integers, Sequences, FiniteSets, TLC

(***************************************************************************)
(* Bounds of the model                                                     *)
(***************************************************************************)
MaxTime == 1
MaxManualJobs == 3
MaxJobs == 4
MaxPredictions == 2
MaxRecords == 3
MaxErrors == 1
MaxCycles == 2
MaxTimers == 1
MaxCorrect == 2
MaxHorses == 2
MaxModelPredictions == 4
MaxSyncErrors == 4

(***************************************************************************)
(* AutoRetrainingEngine: constants                                         *)
(***************************************************************************)
NoDate == -1
NoValue == -1
NoModel == "<all>"
NoError == "<none>"

Models == <<"lightgbm", "xgboost", "catboost", "neural">>

ModelSet == {Models[i] : i \in 1..Len(Models)}

Triggers == {"schedule", "performance_drop", "manual"}

\* performance_threshold is kept in percent (0.65 -> 65)
DefaultConfig ==
  [ enabled |-> TRUE,
    min_predictions_before_retrain |-> 100,
    retrain_interval_hours |-> 24,
    performance_threshold |-> 65,
    max_retrain_frequency |-> 3,
    auto_weight_optimization |-> TRUE ]

\* Partial<RetrainingConfig> values handed to updateConfig: the cooldown
\* parameters, and the sample-size gate of the periodic check
CooldownUpdates ==
  { [max_retrain_frequency |-> 1],
    [retrain_interval_hours |-> 1, max_retrain_frequency |-> 1] }

GateUpdates == { [min_predictions_before_retrain |-> 1] }

\* modelName arguments of a manual triggerRetraining for one model
ModelNameChoices == {"lightgbm", "neural"}

\* Math.random() * 0.05, in percent
ImprovementChoices == {3}

ErrorMessages == {"training failed"}

VARIABLES
  now,                 \* Date.now(), in hours
  config,              \* AutoRetrainingEngine.config
  retrainingJobs,      \* AutoRetrainingEngine.retrainingJobs
  lastRetrainingTime,  \* AutoRetrainingEngine.lastRetrainingTime
  retrainingSchedule,  \* AutoRetrainingEngine.retrainingSchedule # null
  predictions,         \* MetricsCalculator.predictions
  lastCheck            \* what the latest checkAndRetrain read and issued, or
                       \* what the latest optimizeWeights returned

engineVars ==
  <<now, config, retrainingJobs, lastRetrainingTime, retrainingSchedule,
    predictions, lastCheck>>

VARIABLES
  dbPredictions,       \* rows of the predictions table, in insertion order
  dbRaceResults,       \* rows of the raceResults table, in insertion order
  dbAccuracy,          \* rows of the predictionAccuracy table
  nextUuid,            \* the next value uuidv4() returns
  errorLog,            \* events written by PredictionLogger.logError
  lastValidation       \* what the latest validatePrediction call did

validatorVars ==
  <<dbPredictions, dbRaceResults, dbAccuracy, nextUuid, errorLog, lastValidation>>

VARIABLES
  agentIsRunning,      \* ContinuousPredictionAgent.isRunning
  agentTimers,         \* intervals set by start() (none is ever cleared)
  agentCycles,         \* runPredictionCycle executions suspended at an await
  agentPredictions,    \* ContinuousPredictionAgent.predictions
  agentMetrics,        \* ContinuousPredictionAgent.metrics
  agentProcessedRaces  \* ContinuousPredictionAgent.processedRaces

agentVars ==
  <<agentIsRunning, agentTimers, agentCycles, agentPredictions, agentMetrics,
    agentProcessedRaces>>

VARIABLES
  raceScores,      \* per horse of the race at hand, the four rankers' scores
  ensembleOutput   \* what predictRace returned for raceScores, if called

ensembleVars == <<raceScores, ensembleOutput>>

VARIABLES
  syncJobs,           \* SimpleSyncScheduler.jobs
  syncTimers,         \* keys of SimpleSyncScheduler.timers
  syncIsInitialized,  \* SimpleSyncScheduler.isInitialized
  syncInFlight,       \* per job, the executeJob calls suspended in the job body
  lastSync            \* what the latest call of the scheduler did

syncVars == <<syncJobs, syncTimers, syncIsInitialized, syncInFlight, lastSync>>

VARIABLES
  collectorIsRunning,      \* ResultCollector.isRunning
  collectorTimers,         \* collection intervals set by start() (none is cleared)
  collectorCycles,         \* runCollectionCycle executions at await getTodaySchedule()
  collectorResults,        \* keys of ResultCollector.results
  collectorPredictions,    \* ResultCollector.predictions, in insertion order
  collectorMetrics,        \* ResultCollector.metrics
  collectorProcessedRaces, \* ResultCollector.processedRaces
  collectorFeedback        \* what autoRetrainingEngine.addFeedback was called with

collectorVars ==
  <<collectorIsRunning, collectorTimers, collectorCycles, collectorResults,
    collectorPredictions, collectorMetrics, collectorProcessedRaces,
    collectorFeedback>>

vars ==
  <<engineVars, validatorVars, agentVars, ensembleVars, syncVars, collectorVars>>

\* the engine leaves the other components' state alone
EngineFrame == UNCHANGED <<validatorVars, agentVars, ensembleVars, syncVars, collectorVars>>

\* the validator leaves the other components' state alone
ValidatorFrame == UNCHANGED <<engineVars, agentVars, ensembleVars, syncVars, collectorVars>>

\* the prediction agent leaves the other components' state alone
AgentFrame == UNCHANGED <<engineVars, validatorVars, ensembleVars, syncVars, collectorVars>>

\* the ensemble predictor leaves the other components' state alone
EnsembleFrame == UNCHANGED <<engineVars, validatorVars, agentVars, syncVars, collectorVars>>

\* the sync scheduler leaves the other components' state alone, the clock
\* included
SyncFrame ==
  UNCHANGED <<engineVars, validatorVars, agentVars, ensembleVars, collectorVars>>

\* the result collector leaves the other components' state alone
CollectorFrame ==
  UNCHANGED <<engineVars, validatorVars, agentVars, ensembleVars, syncVars>>

NoCheck ==
  [ ran |-> FALSE, predictions_count |-> 0, top1_hits |-> 0,
    min_predictions |-> 0, threshold |-> 0, issued |-> {},
    optimized |-> FALSE, weights |-> {} ]

InitEngine ==
  /\ now = 0
  /\ config = DefaultConfig
  /\ retrainingJobs = <<>>
  /\ lastRetrainingTime = [m \in ModelSet |-> NoDate]
  /\ retrainingSchedule = FALSE
  /\ predictions = <<>>
  /\ lastCheck = NoCheck

(***************************************************************************)
(* MetricsCalculator                                                       *)
(***************************************************************************)
RECURSIVE CountHits(_)
CountHits(preds) ==
  IF preds = <<>> THEN 0
  ELSE (IF Head(preds).top1_accuracy THEN 1 ELSE 0) + CountHits(Tail(preds))

\* ensemble_top1_accuracy = top1_hits / predictions_count (0 when empty)
getEnsembleMetrics ==
  [ predictions_count |-> Len(predictions),
    top1_hits |-> CountHits(predictions) ]

\* metrics.ensemble_top1_accuracy < threshold, threshold in percent
AccuracyBelow(metrics, thresholdPct) ==
  IF metrics.predictions_count = 0
  THEN 0 < thresholdPct
  ELSE metrics.top1_hits * 100 < thresholdPct * metrics.predictions_count

\* a PredictionMetrics record: of its fields, those the model reads
PredictionMetrics(model, hit, roi) ==
  [model_name |-> model, top1_accuracy |-> hit, roi_if_bet |-> roi]

\* what the retraining check reads: ensemble predictions, hit or missed
CheckMetrics == { PredictionMetrics("ensemble", hit, 0) : hit \in BOOLEAN }

\* what the weight optimisation reads: per model, a lost stake, no bet, or a
\* win at one of two prices
WeightMetrics ==
  { PredictionMetrics(m, roi > 0, roi) :
      m \in {"lightgbm", "xgboost"}, roi \in {-10, 0, 20, 30} }

\* recordPrediction(metrics), while fewer than max records are held
recordPrediction(metrics, max) ==
  /\ Len(predictions) < max
  /\ predictions' = Append(predictions, metrics)
  /\ lastCheck' = NoCheck
  /\ UNCHANGED <<now, config, retrainingJobs, lastRetrainingTime,
                 retrainingSchedule>>
  /\ EngineFrame

\* modelMetrics.get(modelName): the records of one model, in recording order
ModelPreds(modelName) ==
  SelectSeq(predictions, LAMBDA p : p.model_name = modelName)

\* modelMetrics.keys()
MetricModels == { predictions[i].model_name : i \in 1..Len(predictions) }

RECURSIVE SumRoi(_)
SumRoi(preds) ==
  IF preds = <<>> THEN 0 ELSE Head(preds).roi_if_bet + SumRoi(Tail(preds))

RECURSIVE SumRoiSquared(_)
SumRoiSquared(preds) ==
  IF preds = <<>> THEN 0
  ELSE Head(preds).roi_if_bet * Head(preds).roi_if_bet + SumRoiSquared(Tail(preds))

\* the integer square root of x, between lo and hi
RECURSIVE ISqrtIn(_, _, _)
ISqrtIn(x, lo, hi) ==
  IF lo >= hi THEN lo
  ELSE LET mid == (lo + hi + 1) \div 2
       IN IF mid * mid <= x THEN ISqrtIn(x, mid, hi) ELSE ISqrtIn(x, lo, mid - 1)

\* (the search stays below 2^15 so that mid * mid fits an integer)
ISqrt(x) == ISqrtIn(x, 0, IF x < 32767 THEN x ELSE 32767)

\* getModelPerformance(modelName).sharpe_ratio in hundredths, rounded towards
\* zero: roiMean / roiStdDev = sum / sqrt(n * sumOfSquares - sum^2), and 0
\* when the deviation is 0
SharpeRatio(modelName) ==
  LET preds == ModelPreds(modelName)
      sum == SumRoi(preds)
      d == Len(preds) * SumRoiSquared(preds) - sum * sum
      magnitude == ISqrt((10000 * sum * sum) \div d)
  IN IF preds = <<>> \/ d = 0 THEN 0
     ELSE IF sum < 0 THEN 0 - magnitude ELSE magnitude

RECURSIVE TotalSharpe(_)
TotalSharpe(models) ==
  IF models = {} THEN 0
  ELSE LET m == CHOOSE x \in models : TRUE
       IN SharpeRatio(m) + TotalSharpe(models \ {m})

\* calculateOptimalWeights(): one weight per recorded model, as a fraction
calculateOptimalWeights ==
  LET totalSharpe == TotalSharpe(MetricModels)
  IN [ m \in MetricModels |->
         IF totalSharpe > 0 THEN [num |-> SharpeRatio(m), den |-> totalSharpe]
         ELSE [num |-> 1, den |-> Cardinality(MetricModels)] ]

(***************************************************************************)
(* AutoRetrainingEngine                                                    *)
(***************************************************************************)
\* Date.now() - lastRetrain < intervalMs / max_retrain_frequency
InCooldown(model) ==
  /\ lastRetrainingTime[model] # NoDate
  /\ (now - lastRetrainingTime[model]) * config.max_retrain_frequency
       < config.retrain_interval_hours

NewJob(model, trigger) ==
  [ job_id |-> <<"retrain", now, model>>,
    model_name |-> model,
    triggered_by |-> trigger,
    status |-> "pending",
    started_at |-> now,
    completed_at |-> NoDate,
    improvement_percent |-> NoValue,
    error_message |-> NoError ]

\* executeRetrainingJob up to its first await
ExecuteRetrainingJobStart(job) == [job EXCEPT !.status = "running"]

RECURSIVE TriggerLoop(_, _, _)
TriggerLoop(modelsToRetrain, trigger, jobs) ==
  IF modelsToRetrain = <<>> THEN jobs
  ELSE LET model == Head(modelsToRetrain) IN
       IF InCooldown(model)
       THEN TriggerLoop(Tail(modelsToRetrain), trigger, jobs)
       ELSE TriggerLoop(Tail(modelsToRetrain), trigger,
                        Append(jobs, ExecuteRetrainingJobStart(NewJob(model, trigger))))

\* the jobs list after triggerRetraining(trigger, modelName)
JobsAfterTrigger(trigger, modelName) ==
  TriggerLoop(IF modelName # NoModel THEN <<modelName>> ELSE Models,
              trigger, retrainingJobs)

triggerRetraining(trigger, modelName) ==
  /\ Len(JobsAfterTrigger(trigger, modelName)) <= MaxJobs
  /\ retrainingJobs' = JobsAfterTrigger(trigger, modelName)
  /\ UNCHANGED <<now, config, lastRetrainingTime, retrainingSchedule, predictions>>

\* a manual request for one model
ManualTrigger(modelName) ==
  /\ Len(retrainingJobs) < MaxManualJobs
  /\ triggerRetraining("manual", modelName)
  /\ lastCheck' = NoCheck
  /\ EngineFrame

\* a manual request with modelName omitted: all models are candidates
ManualTriggerAll ==
  /\ triggerRetraining("manual", NoModel)
  /\ lastCheck' = NoCheck
  /\ EngineFrame

CheckRecord(metrics, issued) ==
  [ ran |-> TRUE,
    predictions_count |-> metrics.predictions_count,
    top1_hits |-> metrics.top1_hits,
    min_predictions |-> config.min_predictions_before_retrain,
    threshold |-> config.performance_threshold,
    issued |-> issued,
    optimized |-> FALSE,
    weights |-> {} ]

\* checkAndRetrain with the sample-size gate on the performance_drop branch
\* only
checkAndRetrainUngated ==
  LET metrics == getEnsembleMetrics IN
  /\ retrainingSchedule
  /\ IF /\ metrics.predictions_count >= config.min_predictions_before_retrain
        /\ AccuracyBelow(metrics, config.performance_threshold)
     THEN /\ triggerRetraining("performance_drop", NoModel)
          /\ lastCheck' = CheckRecord(metrics, {"performance_drop"})
     ELSE /\ triggerRetraining("schedule", NoModel)
          /\ lastCheck' = CheckRecord(metrics, {"schedule"})
  /\ EngineFrame

\* checkAndRetrain without the return that ends the performance_drop branch
checkAndRetrainFallThrough ==
  LET metrics == getEnsembleMetrics IN
  /\ retrainingSchedule
  /\ IF metrics.predictions_count < config.min_predictions_before_retrain
     THEN /\ lastCheck' = CheckRecord(metrics, {})
          /\ UNCHANGED <<now, config, retrainingJobs, lastRetrainingTime,
                         retrainingSchedule, predictions>>
     ELSE IF AccuracyBelow(metrics, config.performance_threshold)
     THEN /\ retrainingJobs' =
               TriggerLoop(Models, "schedule",
                           JobsAfterTrigger("performance_drop", NoModel))
          /\ UNCHANGED <<now, config, lastRetrainingTime, retrainingSchedule,
                         predictions>>
          /\ lastCheck' = CheckRecord(metrics, {"performance_drop", "schedule"})
     ELSE /\ triggerRetraining("schedule", NoModel)
          /\ lastCheck' = CheckRecord(metrics, {"schedule"})
  /\ EngineFrame

\* the interval callback set by scheduleRetraining
checkAndRetrain ==
  LET metrics == getEnsembleMetrics IN
  /\ retrainingSchedule
  /\ IF metrics.predictions_count < config.min_predictions_before_retrain
     THEN /\ lastCheck' = CheckRecord(metrics, {})
          /\ UNCHANGED <<now, config, retrainingJobs, lastRetrainingTime,
                         retrainingSchedule, predictions>>
     ELSE IF AccuracyBelow(metrics, config.performance_threshold)
     THEN /\ triggerRetraining("performance_drop", NoModel)
          /\ lastCheck' = CheckRecord(metrics, {"performance_drop"})
     ELSE /\ triggerRetraining("schedule", NoModel)
          /\ lastCheck' = CheckRecord(metrics, {"schedule"})
  /\ EngineFrame

\* a try block that ends without recording the retraining time
JobCompleteForgetsTime(i, improvement) ==
  /\ retrainingJobs[i].status = "running"
  /\ retrainingJobs' =
       [retrainingJobs EXCEPT ![i] =
          [@ EXCEPT !.status = "completed",
                    !.completed_at = now,
                    !.improvement_percent = improvement]]
  /\ lastCheck' = NoCheck
  /\ UNCHANGED <<now, config, lastRetrainingTime, retrainingSchedule,
                 predictions>>
  /\ EngineFrame

\* executeRetrainingJob after the await: the try block runs to its end
JobComplete(i, improvement) ==
  /\ retrainingJobs[i].status = "running"
  /\ retrainingJobs' =
       [retrainingJobs EXCEPT ![i] =
          [@ EXCEPT !.status = "completed",
                    !.completed_at = now,
                    !.improvement_percent = improvement]]
  /\ lastRetrainingTime' =
       [lastRetrainingTime EXCEPT ![retrainingJobs[i].model_name] = now]
  /\ lastCheck' = NoCheck
  /\ UNCHANGED <<now, config, retrainingSchedule, predictions>>
  /\ EngineFrame

\* JobFail reached from any status that is not yet failed
JobFailAnyStatus(i, message) ==
  /\ retrainingJobs[i].status # "failed"
  /\ retrainingJobs' =
       [retrainingJobs EXCEPT ![i] =
          [@ EXCEPT !.status = "failed",
                    !.completed_at = now,
                    !.error_message = message]]
  /\ lastCheck' = NoCheck
  /\ UNCHANGED <<now, config, lastRetrainingTime, retrainingSchedule,
                 predictions>>
  /\ EngineFrame

\* JobFail that records the retraining time as the success path does
JobFailRecordsTime(i, message) ==
  /\ retrainingJobs[i].status = "running"
  /\ retrainingJobs' =
       [retrainingJobs EXCEPT ![i] =
          [@ EXCEPT !.status = "failed",
                    !.completed_at = now,
                    !.error_message = message]]
  /\ lastRetrainingTime' =
       [lastRetrainingTime EXCEPT ![retrainingJobs[i].model_name] = now]
  /\ lastCheck' = NoCheck
  /\ UNCHANGED <<now, config, retrainingSchedule, predictions>>
  /\ EngineFrame

\* executeRetrainingJob after the await: the training step threw
JobFail(i, message) ==
  /\ retrainingJobs[i].status = "running"
  /\ retrainingJobs' =
       [retrainingJobs EXCEPT ![i] =
          [@ EXCEPT !.status = "failed",
                    !.completed_at = now,
                    !.error_message = message]]
  /\ lastCheck' = NoCheck
  /\ UNCHANGED <<now, config, lastRetrainingTime, retrainingSchedule,
                 predictions>>
  /\ EngineFrame

updateConfig(newConfig) ==
  /\ config' = [f \in DOMAIN config |->
                  IF f \in DOMAIN newConfig THEN newConfig[f] ELSE config[f]]
  /\ lastCheck' = NoCheck
  /\ UNCHANGED <<now, retrainingJobs, lastRetrainingTime, retrainingSchedule,
                 predictions>>
  /\ EngineFrame

initialize ==
  /\ config.enabled
  /\ retrainingSchedule' = TRUE
  /\ lastCheck' = NoCheck
  /\ UNCHANGED <<now, config, retrainingJobs, lastRetrainingTime,
                 predictions>>
  /\ EngineFrame

\* stop() that also empties the job list
stopClearsHistory ==
  /\ retrainingSchedule
  /\ retrainingSchedule' = FALSE
  /\ retrainingJobs' = <<>>
  /\ lastCheck' = NoCheck
  /\ UNCHANGED <<now, config, lastRetrainingTime, predictions>>
  /\ EngineFrame

stop ==
  /\ retrainingSchedule
  /\ retrainingSchedule' = FALSE
  /\ lastCheck' = NoCheck
  /\ UNCHANGED <<now, config, retrainingJobs, lastRetrainingTime,
                 predictions>>
  /\ EngineFrame

\* the Record<string, number> optimizeWeights resolves to, as a set of entries
WeightEntries(weights) ==
  { [model |-> m, weight |-> weights[m]] : m \in DOMAIN weights }

\* optimizeWeights() that books the re-weighting as a retraining of every
\* model it weighs
optimizeWeightsAsRetraining ==
  /\ lastCheck' = [NoCheck EXCEPT !.optimized = TRUE,
                                  !.weights = WeightEntries(calculateOptimalWeights)]
  /\ lastRetrainingTime' =
       [m \in ModelSet |-> IF m \in MetricModels \/ "ensemble" \in MetricModels
                            THEN now ELSE lastRetrainingTime[m]]
  /\ UNCHANGED <<now, config, retrainingJobs, retrainingSchedule, predictions>>
  /\ EngineFrame

\* optimizeWeights(): returns calculateOptimalWeights(); neither it nor the
\* queries it calls write a field of the engine or of the calculator
optimizeWeights ==
  /\ lastCheck' = [NoCheck EXCEPT !.optimized = TRUE,
                                  !.weights = WeightEntries(calculateOptimalWeights)]
  /\ UNCHANGED <<now, config, retrainingJobs, lastRetrainingTime,
                 retrainingSchedule, predictions>>
  /\ EngineFrame

\* the wall clock advances by one hour
Tick ==
  /\ now < MaxTime
  /\ now' = now + 1
  /\ lastCheck' = NoCheck
  /\ UNCHANGED <<config, retrainingJobs, lastRetrainingTime,
                 retrainingSchedule, predictions>>
  /\ EngineFrame

(***************************************************************************)
(* AccuracyValidator over the predictions, raceResults and                 *)
(* predictionAccuracy tables.  Confidence is in percent, odds and profit   *)
(* in tenths.                                                              *)
(***************************************************************************)
Stake == 10

NoRecord == [id |-> NoValue]

NoPosition == 0

RaceIds == {"r1", "r2"}

\* rows an inference cycle may have stored in the predictions table
PredictionRows ==
  { [ id |-> "p1", raceId |-> "r1", topPick |-> "A", topPickConfidence |-> 80,
      bettingSignal |-> "STRONG_BUY",
      predictedRankings |-> << [horse |-> "A", rank |-> 1],
                               [horse |-> "B", rank |-> 2],
                               [horse |-> "C", rank |-> 3] >> ],
    [ id |-> "p2", raceId |-> "r1", topPick |-> "B", topPickConfidence |-> 60,
      bettingSignal |-> "avoid",
      predictedRankings |-> << [horse |-> "B", rank |-> 1],
                               [horse |-> "A", rank |-> 2],
                               [horse |-> "C", rank |-> 3] >> ],
    [ id |-> "p3", raceId |-> "r2", topPick |-> "X", topPickConfidence |-> 70,
      bettingSignal |-> "BUY",
      predictedRankings |-> << [horse |-> "X", rank |-> 1],
                               [horse |-> "Y", rank |-> 2] >> ],
    [ id |-> "p4", raceId |-> "r2", topPick |-> "z", topPickConfidence |-> 40,
      bettingSignal |-> "WAIT",
      predictedRankings |-> << [horse |-> "z", rank |-> 1],
                               [horse |-> "W", rank |-> 2] >> ] }

\* rows result ingestion may store in the raceResults table
ResultRows ==
  { [ id |-> "res1", raceId |-> "r1", winner |-> "A",
      actualRankings |-> << [horse |-> "A", position |-> 1, odds |-> 35],
                            [horse |-> "B", position |-> 2, odds |-> 50],
                            [horse |-> "D", position |-> 3, odds |-> 80],
                            [horse |-> "C", position |-> 4, odds |-> 120] >> ],
    [ id |-> "res2", raceId |-> "r2", winner |-> "Z",
      actualRankings |-> << [horse |-> "Z", position |-> 1, odds |-> 20],
                            [horse |-> "W", position |-> 2, odds |-> 40] >> ] }

\* where a database call of one validatePrediction run throws: nowhere, in
\* the first select, in the second select, or in the k-th insert
Faults ==
  { [at |-> "none", k |-> 0], [at |-> "select_predictions", k |-> 0],
    [at |-> "select_result", k |-> 0], [at |-> "insert", k |-> 1],
    [at |-> "insert", k |-> 2] }

NoValidation ==
  [ ran |-> FALSE, raceId |-> "", fault |-> "none", raised |-> FALSE,
    outcome |-> "none" ]

\* what a validatePrediction call did: whether its try block raised, and
\* whether the call returned to its caller or threw
Validation(raceId, fault, raised, outcome) ==
  [ ran |-> TRUE, raceId |-> raceId, fault |-> fault.at, raised |-> raised,
    outcome |-> outcome ]

\* MetricsCalculator.normalizeHorseName: name.trim().toUpperCase(), on the
\* names of the rows above
normalizeHorseName(name) ==
  IF name \in {"z", " Z", "z "} THEN "Z"
  ELSE IF name \in {"a", " A", "a "} THEN "A"
  ELSE name

InitValidator ==
  /\ dbPredictions = <<>>
  /\ dbRaceResults = <<>>
  /\ dbAccuracy = {}
  /\ nextUuid = 1
  /\ errorLog = <<>>
  /\ lastValidation = NoValidation

Abs(x) == IF x < 0 THEN 0 - x ELSE x

HorsesOf(rankings) == [i \in 1..Len(rankings) |-> rankings[i].horse]

HasHorse(rankings, h) == \E i \in 1..Len(rankings) : rankings[i].horse = h

\* new Map(entries): the last entry of a key is the one kept
LastIndexOf(rankings, h) ==
  CHOOSE i \in 1..Len(rankings) :
    /\ rankings[i].horse = h
    /\ \A j \in (i + 1)..Len(rankings) : rankings[j].horse # h

\* Array.prototype.find: the first entry of a key
FirstIndexOf(rankings, h) ==
  CHOOSE i \in 1..Len(rankings) :
    /\ rankings[i].horse = h
    /\ \A j \in 1..(i - 1) : rankings[j].horse # h

PredictedRank(prediction, h) ==
  prediction.predictedRankings[LastIndexOf(prediction.predictedRankings, h)].rank

ActualRank(result, h) ==
  result.actualRankings[LastIndexOf(result.actualRankings, h)].position

RECURSIVE SumDSquared(_, _, _)
SumDSquared(horses, prediction, result) ==
  IF horses = <<>> THEN 0
  ELSE LET d == PredictedRank(prediction, Head(horses)) - ActualRank(result, Head(horses))
       IN d * d + SumDSquared(Tail(horses), prediction, result)

\* rho = 1 - 6 * sum(d^2) / (n * (n^2 - 1)), clamped to [-1, 1], as num / den
calculateSpearmanCorrelation(horses, prediction, result) ==
  LET n == Len(horses)
      den == n * (n * n - 1)
      num == den - 6 * SumDSquared(horses, prediction, result)
  IN IF n < 2 THEN [num |-> 0, den |-> 1]
     ELSE [num |-> IF num > den THEN den ELSE IF num < 0 - den THEN 0 - den ELSE num,
           den |-> den]

FirstN(seq, n) == SubSeq(seq, 1, IF Len(seq) < n THEN Len(seq) ELSE n)

SeqContains(seq, x) == \E i \in 1..Len(seq) : seq[i] = x

\* the row calculateAccuracy inserts, NoRecord when it returns before the insert
calculateAccuracy(prediction, result, uuid) ==
  LET predictedRankings == prediction.predictedRankings
      actualRankings == result.actualRankings
      commonHorses ==
        SelectSeq(HorsesOf(predictedRankings), LAMBDA h : HasHorse(actualRankings, h))
      topPickCorrect == prediction.topPick = result.winner
      topPickPosition ==
        IF HasHorse(actualRankings, prediction.topPick)
        THEN ActualRank(result, prediction.topPick) ELSE NoPosition
      predictedTop3 == FirstN(HorsesOf(predictedRankings), 3)
      top3Accuracy == SeqContains(predictedTop3, result.winner)
      rankCorrelation == calculateSpearmanCorrelation(commonHorses, prediction, result)
      confidenceError ==
        IF topPickCorrect THEN Abs(prediction.topPickConfidence - 100)
        ELSE Abs(prediction.topPickConfidence - 0)
      bets == prediction.bettingSignal # "" /\ prediction.bettingSignal # "avoid"
      winnerOdds ==
        IF HasHorse(actualRankings, prediction.topPick)
        THEN actualRankings[FirstIndexOf(actualRankings, prediction.topPick)].odds
        ELSE 10
  IN IF Len(commonHorses) = 0 THEN NoRecord
     ELSE [ id |-> uuid,
            predictionId |-> prediction.id,
            raceResultId |-> result.id,
            topPickCorrect |-> topPickCorrect,
            topPickPosition |-> topPickPosition,
            top3Accuracy |-> top3Accuracy,
            rankCorrelation |-> rankCorrelation,
            confidenceError |-> confidenceError,
            bettingOutcome |->
              IF ~bets THEN "no_bet" ELSE IF topPickCorrect THEN "win" ELSE "loss",
            profitLoss |->
              IF ~bets THEN 0
              ELSE IF topPickCorrect THEN Stake * (winnerOdds - 10)
              ELSE 0 - Stake * 10 ]

\* the for-loop of validatePrediction; the fault's k-th insert throws
RECURSIVE ValidateLoop(_, _, _, _, _, _)
ValidateLoop(racePredictions, result, accuracy, uuid, inserted, fault) ==
  IF racePredictions = <<>>
  THEN [accuracy |-> accuracy, uuid |-> uuid, raised |-> FALSE]
  ELSE LET row == calculateAccuracy(Head(racePredictions), result, uuid) IN
       IF row = NoRecord
       THEN ValidateLoop(Tail(racePredictions), result, accuracy, uuid, inserted, fault)
       ELSE IF fault.at = "insert" /\ fault.k = inserted + 1
       THEN [accuracy |-> accuracy, uuid |-> uuid, raised |-> TRUE]
       ELSE ValidateLoop(Tail(racePredictions), result, accuracy \cup {row},
                         uuid + 1, inserted + 1, fault)

RacePredictions(raceId) == SelectSeq(dbPredictions, LAMBDA p : p.raceId = raceId)

RaceResultRows(raceId) == SelectSeq(dbRaceResults, LAMBDA r : r.raceId = raceId)

Unchanged(raised) == [accuracy |-> dbAccuracy, uuid |-> nextUuid, raised |-> raised]

\* TryValidate without the early return on a missing result: the loop then
\* dereferences undefined
TryValidateNoResultCheck(raceId, fault) ==
  IF fault.at = "select_predictions" THEN Unchanged(TRUE)
  ELSE IF RacePredictions(raceId) = <<>> THEN Unchanged(FALSE)
  ELSE IF fault.at = "select_result" THEN Unchanged(TRUE)
  ELSE IF RaceResultRows(raceId) = <<>> THEN Unchanged(TRUE)
  ELSE ValidateLoop(RacePredictions(raceId), Head(RaceResultRows(raceId)),
                    dbAccuracy, nextUuid, 0, fault)

\* the try block of validatePrediction: the accuracy table and uuid stream it
\* leaves, and whether it raised
TryValidate(raceId, fault) ==
  IF fault.at = "select_predictions" THEN Unchanged(TRUE)
  ELSE IF RacePredictions(raceId) = <<>> THEN Unchanged(FALSE)
  ELSE IF fault.at = "select_result" THEN Unchanged(TRUE)
  ELSE IF RaceResultRows(raceId) = <<>> THEN Unchanged(FALSE)
  ELSE ValidateLoop(RacePredictions(raceId), Head(RaceResultRows(raceId)),
                    dbAccuracy, nextUuid, 0, fault)

ErrorEvent(raceId) ==
  [ errorType |-> "accuracy_validation_failure", severity |-> "high",
    raceId |-> raceId ]

\* validatePrediction(raceId).  The catch block awaits
\* PredictionLogger.logError, a name the file neither imports nor declares:
\* logThrows is whether that expression throws.
validatePrediction(raceId, fault, logThrows) ==
  \E try \in {TryValidate(raceId, fault)} :
  /\ Cardinality(try.accuracy) <= MaxRecords
  /\ dbAccuracy' = try.accuracy
  /\ nextUuid' = try.uuid
  /\ IF ~try.raised
     THEN /\ errorLog' = errorLog
          /\ lastValidation' = Validation(raceId, fault, FALSE, "returned")
     ELSE IF logThrows
     THEN /\ errorLog' = errorLog
          /\ lastValidation' = Validation(raceId, fault, TRUE, "threw")
     ELSE /\ Len(errorLog) < MaxErrors
          /\ errorLog' = Append(errorLog, ErrorEvent(raceId))
          /\ lastValidation' = Validation(raceId, fault, TRUE, "returned")
  /\ UNCHANGED <<dbPredictions, dbRaceResults>>
  /\ ValidatorFrame

\* the order in which the inference side issues its rows
PredictionOrder == <<"p1", "p2", "p3", "p4">>

IssuedBefore(a, b) ==
  \E i, j \in 1..Len(PredictionOrder) :
    i < j /\ PredictionOrder[i] = a.id /\ PredictionOrder[j] = b.id

\* the inference side stores a prediction, later than those it issued before
InsertPrediction(row) ==
  /\ \A i \in 1..Len(dbPredictions) : IssuedBefore(dbPredictions[i], row)
  /\ dbPredictions' = Append(dbPredictions, row)
  /\ lastValidation' = NoValidation
  /\ UNCHANGED <<dbRaceResults, dbAccuracy, nextUuid, errorLog>>
  /\ ValidatorFrame

\* result ingestion stores the official result of a race
InsertRaceResult(row) ==
  /\ RaceResultRows(row.raceId) = <<>>
  /\ dbRaceResults' = Append(dbRaceResults, row)
  /\ lastValidation' = NoValidation
  /\ UNCHANGED <<dbPredictions, dbAccuracy, nextUuid, errorLog>>
  /\ ValidatorFrame

NextValidator ==
  \/ \E row \in PredictionRows : InsertPrediction(row)
  \/ \E row \in ResultRows : InsertRaceResult(row)
  \/ \E r \in RaceIds, f \in Faults, t \in BOOLEAN : validatePrediction(r, f, t)

(***************************************************************************)
(* ContinuousPredictionAgent.  A cycle is suspended either at              *)
(* await getTodaySchedule() ("fetch") or, inside makePrediction, at        *)
(* await savePrediction() ("saving"); everything between two such awaits   *)
(* runs without interruption.  Of a prediction only                        *)
(* predictedWinProbability > 0.5 is kept (predictedWin).                   *)
(***************************************************************************)
Race1 == [key |-> "M-1", id |-> "r1", horses |-> <<"h1", "h2">>]

Race2 == [key |-> "M-2", id |-> "r2", horses |-> <<"h1">>]

\* what getTodaySchedule() resolves to: no meetings, or the races of the day
ScheduleChoices == { <<>>, <<Race1>>, <<Race1, Race2>> }

PredictionKey(raceId, horseId) == <<raceId, horseId>>

AgentKeys == { PredictionKey("r1", "h1"), PredictionKey("r1", "h2"),
               PredictionKey("r2", "h1") }

InitAgent ==
  /\ agentIsRunning = FALSE
  /\ agentTimers = 0
  /\ agentCycles = <<>>
  /\ agentPredictions = << >>
  /\ agentMetrics =
       [ totalPredictions |-> 0, correctPredictions |-> 0,
         accuracy |-> [num |-> 0, den |-> 1] ]
  /\ agentProcessedRaces = {}

RemoveAt(seq, i) == SubSeq(seq, 1, i - 1) \o SubSeq(seq, i + 1, Len(seq))

\* the race loop up to the next race that has a horse to predict: races
\* already processed are skipped
RECURSIVE NextUnprocessed(_, _)
NextUnprocessed(todo, processed) ==
  IF todo = <<>> THEN [todo |-> <<>>, processed |-> processed]
  ELSE IF Head(todo).key \in processed THEN NextUnprocessed(Tail(todo), processed)
  ELSE IF Head(todo).horses = <<>>
  THEN NextUnprocessed(Tail(todo), processed \cup {Head(todo).key})
  ELSE [todo |-> todo, processed |-> processed]

\* makePrediction up to await savePrediction(): predictions.set(key, record)
WithPrediction(preds, race, horse, predictedWin) ==
  LET key == PredictionKey(race.id, horse)
      record == [ raceId |-> race.id, horseName |-> horse,
                  predictedWin |-> predictedWin, status |-> "pending",
                  actualResult |-> "", feedback |-> NoValue ]
  IN [k \in DOMAIN preds \cup {key} |-> IF k = key THEN record ELSE preds[k]]

\* updateMetrics: accuracy = correctPredictions / totalPredictions
updateMetrics(metrics) ==
  IF metrics.totalPredictions = 0 THEN metrics
  ELSE [metrics EXCEPT !.accuracy =
          [num |-> metrics.correctPredictions, den |-> metrics.totalPredictions]]

\* the cycle at position i ends; the cycle started by start() is followed by
\* its setInterval
EndCycle(i) ==
  /\ agentCycles' = RemoveAt(agentCycles, i)
  /\ agentTimers' = IF agentCycles[i].initial THEN agentTimers + 1 ELSE agentTimers

\* the cycle at position i runs from a resumed await with the races todo left
\* to its next await, or to its end
ContinueCycle(i, todo, processed, metrics, predictedWin) ==
  LET nx == NextUnprocessed(todo, processed) IN
  /\ agentProcessedRaces' = nx.processed
  /\ IF nx.todo = <<>>
     THEN /\ agentMetrics' = updateMetrics(metrics)
          /\ agentPredictions' = agentPredictions
          /\ EndCycle(i)
     ELSE /\ agentMetrics' = metrics
          /\ agentPredictions' =
               WithPrediction(agentPredictions, Head(nx.todo),
                              Head(Head(nx.todo).horses), predictedWin)
          /\ agentCycles' =
               [agentCycles EXCEPT ![i] =
                  [@ EXCEPT !.pc = "saving", !.todo = nx.todo,
                            !.horses = Head(nx.todo).horses]]
          /\ agentTimers' = agentTimers

NewCycle(initial) ==
  [pc |-> "fetch", initial |-> initial, todo |-> <<>>, horses |-> <<>>]

\* start(): the guard, isRunning = true and the initial runPredictionCycle()
\* up to its first await
AgentStart ==
  /\ ~agentIsRunning
  /\ Len(agentCycles) < MaxCycles
  /\ agentTimers + Cardinality({i \in 1..Len(agentCycles) : agentCycles[i].initial})
       < MaxTimers
  /\ agentIsRunning' = TRUE
  /\ agentCycles' = Append(agentCycles, NewCycle(TRUE))
  /\ UNCHANGED <<agentTimers, agentPredictions, agentMetrics, agentProcessedRaces>>
  /\ AgentFrame

AgentStop ==
  /\ agentIsRunning
  /\ agentIsRunning' = FALSE
  /\ UNCHANGED <<agentTimers, agentCycles, agentPredictions, agentMetrics,
                 agentProcessedRaces>>
  /\ AgentFrame

\* the setInterval callback: runPredictionCycle() up to its first await
AgentTimerFire ==
  /\ agentTimers > 0
  /\ Len(agentCycles) < MaxCycles
  /\ agentCycles' = Append(agentCycles, NewCycle(FALSE))
  /\ UNCHANGED <<agentIsRunning, agentTimers, agentPredictions, agentMetrics,
                 agentProcessedRaces>>
  /\ AgentFrame

\* getTodaySchedule() resolves
AgentFetchDone(i, schedule, predictedWin) ==
  /\ agentCycles[i].pc = "fetch"
  /\ IF schedule = <<>>
     THEN /\ EndCycle(i)
          /\ UNCHANGED <<agentPredictions, agentMetrics, agentProcessedRaces>>
     ELSE ContinueCycle(i, schedule, agentProcessedRaces, agentMetrics, predictedWin)
  /\ UNCHANGED agentIsRunning
  /\ AgentFrame

\* getTodaySchedule() rejects: the catch of runPredictionCycle logs it
AgentFetchFail(i) ==
  /\ agentCycles[i].pc = "fetch"
  /\ EndCycle(i)
  /\ UNCHANGED <<agentIsRunning, agentPredictions, agentMetrics, agentProcessedRaces>>
  /\ AgentFrame

\* savePrediction() settles: totalPredictions++, then the next horse, the
\* next race, or the end of the cycle
AgentSaveDone(i, predictedWin) ==
  LET cycle == agentCycles[i]
      race == Head(cycle.todo)
      counted == [agentMetrics EXCEPT !.totalPredictions = @ + 1]
  IN
  /\ cycle.pc = "saving"
  /\ IF Tail(cycle.horses) # <<>>
     THEN /\ agentMetrics' = counted
          /\ agentPredictions' =
               WithPrediction(agentPredictions, race, Head(Tail(cycle.horses)),
                              predictedWin)
          /\ agentCycles' = [agentCycles EXCEPT ![i].horses = Tail(cycle.horses)]
          /\ UNCHANGED <<agentTimers, agentProcessedRaces>>
     ELSE ContinueCycle(i, Tail(cycle.todo), agentProcessedRaces \cup {race.key},
                        counted, predictedWin)
  /\ UNCHANGED agentIsRunning
  /\ AgentFrame

updatePredictionResult(raceId, horseId, actualResult) ==
  LET key == PredictionKey(raceId, horseId) IN
  /\ key \in DOMAIN agentPredictions
  /\ agentMetrics.correctPredictions < MaxCorrect
  /\ LET actual == actualResult = "win"
         feedback == IF agentPredictions[key].predictedWin = actual THEN 1 ELSE 0
     IN /\ agentPredictions' =
             [agentPredictions EXCEPT ![key] =
                [@ EXCEPT !.actualResult = actualResult, !.status = "completed",
                          !.feedback = feedback]]
        /\ agentMetrics' =
             [agentMetrics EXCEPT !.correctPredictions = @ + feedback]
  /\ UNCHANGED <<agentIsRunning, agentTimers, agentCycles, agentProcessedRaces>>
  /\ AgentFrame

NextAgent ==
  \/ AgentStart
  \/ AgentStop
  \/ AgentTimerFire
  \/ \E i \in 1..Len(agentCycles), sch \in ScheduleChoices, w \in BOOLEAN :
       AgentFetchDone(i, sch, w)
  \/ \E i \in 1..Len(agentCycles) : AgentFetchFail(i)
  \/ \E i \in 1..Len(agentCycles), w \in BOOLEAN : AgentSaveDone(i, w)
  \/ \E k \in AgentKeys, a \in {"win", "loss"} : updatePredictionResult(k[1], k[2], a)

(***************************************************************************)
(* EnsemblePredictor.  Ranker scores are in hundredths, model weights in   *)
(* hundredths, so combined scores, confidences and thresholds are in units *)
(* of 1/10000; averages are kept as fractions [num, den].  The four        *)
(* get...Predictions methods of the source are placeholders returning      *)
(* Math.random(); the scores here are those of the rankers they stand for, *)
(* real-valued and not confined to [0, 1).  race_id and timestamp          *)
(* (Date.now()) are not carried.                                           *)
(***************************************************************************)
\* 75 makes a combined score meet the very_high threshold exactly
ScoreGrid == {0, 75, 200}

RankerScores ==
  [lightgbm : ScoreGrid, xgboost : ScoreGrid, catboost : ScoreGrid, neural : ScoreGrid]

modelWeights == [lightgbm |-> 35, xgboost |-> 25, catboost |-> 25, neural |-> 15]

confidenceThresholds ==
  [very_high |-> 7500, high |-> 6000, medium |-> 4500, low |-> 3000]

One == 10000

NoOutput == [status |-> "none"]

LowAgreementAction ==
  [ label |-> "WAIT - Low model agreement, insufficient confidence",
    horse_name |-> NoValue, confidence |-> NoValue ]

InitEnsemble ==
  /\ raceScores = <<>>
  /\ ensembleOutput = NoOutput

Min(a, b) == IF a <= b THEN a ELSE b

Max(a, b) == IF a >= b THEN a ELSE b

combineWeightedPredictions(scores) ==
  [ i \in 1..Len(scores) |->
      modelWeights.lightgbm * scores[i].lightgbm
      + modelWeights.xgboost * scores[i].xgboost
      + modelWeights.catboost * scores[i].catboost
      + modelWeights.neural * scores[i].neural ]

getBettingSignal(confidence) ==
  IF confidence >= confidenceThresholds.very_high THEN "STRONG_BUY"
  ELSE IF confidence >= confidenceThresholds.high THEN "BUY"
  ELSE IF confidence >= confidenceThresholds.medium THEN "HOLD"
  ELSE "WAIT"

\* (confidence - 1/10) * 100, in hundredths of a percent
calculateExpectedROI(confidence) == confidence - One \div 10

\* Array.prototype.sort with (a, b) => b.score - a.score: descending by
\* score, equal scores keep their order
RECURSIVE InsertByScore(_, _)
InsertByScore(sorted, p) ==
  IF sorted = <<>> THEN <<p>>
  ELSE IF Head(sorted).score >= p.score
  THEN <<Head(sorted)>> \o InsertByScore(Tail(sorted), p)
  ELSE <<p>> \o sorted

RECURSIVE SortByScore(_)
SortByScore(preds) ==
  IF preds = <<>> THEN <<>>
  ELSE InsertByScore(SortByScore(SubSeq(preds, 1, Len(preds) - 1)),
                     preds[Len(preds)])

\* generateBettingSignals with the rank counted from the scores (one more
\* than the number of higher scores), so that equal scores share a rank
generateBettingSignalsSharedRank(scores) ==
  SortByScore(
    [ idx \in 1..Len(scores) |->
        [ horse_name |-> idx,
          rank |-> 1 + Cardinality({j \in 1..Len(scores) : scores[j] > scores[idx]}),
          score |-> scores[idx],
          confidence |-> Min(scores[idx], One),
          implied_probability |-> scores[idx],
          betting_signal |-> getBettingSignal(scores[idx]),
          expected_roi |-> calculateExpectedROI(scores[idx]) ] ])

generateBettingSignals(scores) ==
  SortByScore(
    [ idx \in 1..Len(scores) |->
        [ horse_name |-> idx,
          rank |-> idx,
          score |-> scores[idx],
          confidence |-> Min(scores[idx], One),
          implied_probability |-> scores[idx],
          betting_signal |-> getBettingSignal(scores[idx]),
          expected_roi |-> calculateExpectedROI(scores[idx]) ] ])

RECURSIVE SumConfidence(_)
SumConfidence(preds) ==
  IF preds = <<>> THEN 0 ELSE Head(preds).confidence + SumConfidence(Tail(preds))

\* the mean confidence of the first three predictions, at most 1
calculateEnsembleConfidence(preds) ==
  LET topPredictions == FirstN(preds, 3)
      sum == SumConfidence(topPredictions)
      n == Len(topPredictions)
  IN [num |-> Min(sum, One * n), den |-> n]

\* 64 times the variance of one horse's four scores, in units of 1/10000
Variance64(s) ==
  LET total == s.lightgbm + s.xgboost + s.catboost + s.neural
      sq(v) == (4 * v - total) * (4 * v - total)
  IN sq(s.lightgbm) + sq(s.xgboost) + sq(s.catboost) + sq(s.neural)

RECURSIVE SumVariance64(_)
SumVariance64(scores) ==
  IF scores = <<>> THEN 0 ELSE Variance64(Head(scores)) + SumVariance64(Tail(scores))

\* max(0, 1 - avgVariance) as a fraction; only called with a horse
calculateModelAgreement(scores) ==
  LET den == 64 * One * Len(scores)
  IN [num |-> Max(0, den - SumVariance64(scores)), den |-> den]

BelowHalf(agreement) == 2 * agreement.num < agreement.den

\* getRecommendedAction with the agreement test reached only after the
\* signal tiers
getRecommendedActionSignalFirst(preds, modelAgreement) ==
  LET topSignal == IF preds = <<>> THEN "" ELSE preds[1].betting_signal
      confidence == IF preds = <<>> THEN 0 ELSE preds[1].confidence
      named(label) ==
        [label |-> label, horse_name |-> preds[1].horse_name,
         confidence |-> confidence]
      plain(label) ==
        [label |-> label, horse_name |-> NoValue, confidence |-> NoValue]
  IN IF topSignal = "STRONG_BUY" /\ confidence > 7500 THEN named("STRONG BUY")
     ELSE IF topSignal = "BUY" /\ confidence > 6000 THEN named("BUY")
     ELSE IF topSignal = "HOLD"
     THEN plain("HOLD: Moderate confidence, consider smaller stake")
     ELSE IF BelowHalf(modelAgreement) THEN LowAgreementAction
     ELSE plain("WAIT: Insufficient confidence for betting")

getRecommendedAction(preds, modelAgreement) ==
  LET topSignal == IF preds = <<>> THEN "" ELSE preds[1].betting_signal
      confidence == IF preds = <<>> THEN 0 ELSE preds[1].confidence
      named(label) ==
        [label |-> label, horse_name |-> preds[1].horse_name,
         confidence |-> confidence]
      plain(label) ==
        [label |-> label, horse_name |-> NoValue, confidence |-> NoValue]
  IN IF BelowHalf(modelAgreement) THEN LowAgreementAction
     ELSE IF topSignal = "STRONG_BUY" /\ confidence > 7500 THEN named("STRONG BUY")
     ELSE IF topSignal = "BUY" /\ confidence > 6000 THEN named("BUY")
     ELSE IF topSignal = "HOLD"
     THEN plain("HOLD: Moderate confidence, consider smaller stake")
     ELSE plain("WAIT: Insufficient confidence for betting")

\* predictRace for the race at hand; without a horse the reduce() of
\* calculateModelAgreement over an empty array throws
predictRace ==
  /\ IF raceScores = <<>>
     THEN ensembleOutput' = [status |-> "threw"]
     ELSE LET preds == generateBettingSignals(combineWeightedPredictions(raceScores))
              modelAgreement == calculateModelAgreement(raceScores)
          IN ensembleOutput' =
               [ status |-> "ok",
                 predictions |-> preds,
                 ensemble_confidence |-> calculateEnsembleConfidence(preds),
                 model_agreement |-> modelAgreement,
                 recommended_action |-> getRecommendedAction(preds, modelAgreement) ]
  /\ UNCHANGED raceScores
  /\ EnsembleFrame

\* the race at hand gets one more horse, with its four ranker scores
AddRunner(scores) ==
  /\ Len(raceScores) < MaxHorses
  /\ raceScores' = Append(raceScores, scores)
  /\ ensembleOutput' = NoOutput
  /\ EnsembleFrame

\* another race comes up
NewRace ==
  /\ raceScores # <<>> \/ ensembleOutput # NoOutput
  /\ raceScores' = <<>>
  /\ ensembleOutput' = NoOutput
  /\ EnsembleFrame

NextEnsemble ==
  \/ \E scores \in RankerScores : AddRunner(scores)
  \/ predictRace
  \/ NewRace

(***************************************************************************)
(* SimpleSyncScheduler                                                     *)
(***************************************************************************)
\* the keys of the jobs map, in insertion order
SyncJobIds == <<"sync-today", "sync-tomorrow", "health-check">>

SyncJobSet == {SyncJobIds[i] : i \in 1..Len(SyncJobIds)}

\* the jobs map the constructor builds
initializeJobs ==
  [ id \in SyncJobSet |->
      [ status |-> "idle",
        lastRun |-> NoDate,
        errorCount |-> 0,
        maxRetries |-> IF id = "health-check" THEN 1 ELSE 3 ] ]

NoSync == [call |-> "none", job |-> "", skipped |-> <<>>]

InitSync ==
  /\ syncJobs = initializeJobs
  /\ syncTimers = {}
  /\ syncIsInitialized = FALSE
  /\ syncInFlight = [id \in SyncJobSet |-> 0]
  /\ lastSync = NoSync

\* executeJob without the test of the running status
executeJobUnguarded(st, id) ==
  IF id = "health-check"
  THEN [st EXCEPT !.jobs[id].status = "idle",
                  !.jobs[id].lastRun = now,
                  !.jobs[id].errorCount = 0,
                  !.skipped = Append(@, FALSE)]
  ELSE [st EXCEPT !.jobs[id].status = "running",
                  !.jobs[id].lastRun = now,
                  !.inFlight[id] = @ + 1,
                  !.skipped = Append(@, FALSE)]

\* executeJob(job) as far as it runs before control returns to the caller's
\* caller, applied to st = [jobs, inFlight, skipped]: a running job is
\* skipped; syncToday and syncTomorrow suspend at the call of the ingestion
\* service; healthCheck awaits nothing and cannot throw, so its execution ends
\* (errorCount 0, status idle) in the microtask that follows, before any timer
\* or response is handled
executeJob(st, id) ==
  IF st.jobs[id].status = "running"
  THEN [st EXCEPT !.skipped = Append(@, TRUE)]
  ELSE IF id = "health-check"
  THEN [st EXCEPT !.jobs[id].status = "idle",
                  !.jobs[id].lastRun = now,
                  !.jobs[id].errorCount = 0,
                  !.skipped = Append(@, FALSE)]
  ELSE [st EXCEPT !.jobs[id].status = "running",
                  !.jobs[id].lastRun = now,
                  !.inFlight[id] = @ + 1,
                  !.skipped = Append(@, FALSE)]

\* executeJobImmediate(jobId): every id it is called with is in the map
executeJobImmediate(st, jobId) == executeJob(st, jobId)

RECURSIVE ExecuteAll(_, _)
ExecuteAll(st, ids) ==
  IF ids = <<>> THEN st
  ELSE ExecuteAll(executeJobImmediate(st, Head(ids)), Tail(ids))

SyncState == [jobs |-> syncJobs, inFlight |-> syncInFlight, skipped |-> <<>>]

\* start(): scheduleJob for each job (an immediate execution, then its
\* interval), then one more immediate execution of sync-today
SyncStart ==
  /\ IF syncIsInitialized
     THEN /\ lastSync' = [call |-> "start", job |-> "", skipped |-> <<>>]
          /\ UNCHANGED <<syncJobs, syncTimers, syncIsInitialized, syncInFlight>>
     ELSE \E st \in {ExecuteAll(SyncState, SyncJobIds \o <<"sync-today">>)} :
            /\ syncJobs' = st.jobs
            /\ syncInFlight' = st.inFlight
            /\ syncTimers' = SyncJobSet
            /\ syncIsInitialized' = TRUE
            /\ lastSync' = [call |-> "start", job |-> "", skipped |-> st.skipped]
  /\ SyncFrame

\* stop(): every interval is cleared; executions in flight go on
SyncStop ==
  /\ syncTimers' = {}
  /\ syncIsInitialized' = FALSE
  /\ lastSync' = [call |-> "stop", job |-> "", skipped |-> <<>>]
  /\ UNCHANGED <<syncJobs, syncInFlight>>
  /\ SyncFrame

\* an interval callback that leaves a failed job alone
SyncTimerFireSkipsFailed(id) ==
  /\ id \in syncTimers
  /\ \E st \in {IF syncJobs[id].status = "failed"
                 THEN [SyncState EXCEPT !.skipped = <<TRUE>>]
                 ELSE executeJob(SyncState, id)} :
       /\ syncJobs' = st.jobs
       /\ syncInFlight' = st.inFlight
       /\ lastSync' = [call |-> "timer", job |-> id, skipped |-> st.skipped]
  /\ UNCHANGED <<syncTimers, syncIsInitialized>>
  /\ SyncFrame

\* the interval of job id fires: executeJob(job)
SyncTimerFire(id) ==
  /\ id \in syncTimers
  /\ \E st \in {executeJob(SyncState, id)} :
       /\ syncJobs' = st.jobs
       /\ syncInFlight' = st.inFlight
       /\ lastSync' = [call |-> "timer", job |-> id, skipped |-> st.skipped]
  /\ UNCHANGED <<syncTimers, syncIsInitialized>>
  /\ SyncFrame

\* the job body of an execution in flight returns: the rest of the try block
SyncSucceed(id) ==
  /\ syncInFlight[id] > 0
  /\ syncJobs' = [syncJobs EXCEPT ![id].errorCount = 0, ![id].status = "idle"]
  /\ syncInFlight' = [syncInFlight EXCEPT ![id] = @ - 1]
  /\ lastSync' = [call |-> "resolved", job |-> id, skipped |-> <<>>]
  /\ UNCHANGED <<syncTimers, syncIsInitialized>>
  /\ SyncFrame

\* a catch block that gives up one error later
SyncFailLate(id) ==
  /\ syncInFlight[id] > 0
  /\ syncJobs[id].errorCount < MaxSyncErrors
  /\ syncJobs' =
       [syncJobs EXCEPT
          ![id].errorCount = @ + 1,
          ![id].status = IF syncJobs[id].errorCount + 1 > syncJobs[id].maxRetries
                         THEN "failed" ELSE "idle"]
  /\ syncInFlight' = [syncInFlight EXCEPT ![id] = @ - 1]
  /\ lastSync' = [call |-> "rejected", job |-> id, skipped |-> <<>>]
  /\ UNCHANGED <<syncTimers, syncIsInitialized>>
  /\ SyncFrame

\* the job body of an execution in flight throws (the ingestion reports no
\* success, or rejects): the catch block
SyncFail(id) ==
  /\ syncInFlight[id] > 0
  /\ syncJobs[id].errorCount < MaxSyncErrors
  /\ syncJobs' =
       [syncJobs EXCEPT
          ![id].errorCount = @ + 1,
          ![id].status = IF syncJobs[id].errorCount + 1 >= syncJobs[id].maxRetries
                         THEN "failed" ELSE "idle"]
  /\ syncInFlight' = [syncInFlight EXCEPT ![id] = @ - 1]
  /\ lastSync' = [call |-> "rejected", job |-> id, skipped |-> <<>>]
  /\ UNCHANGED <<syncTimers, syncIsInitialized>>
  /\ SyncFrame

NextSync ==
  \/ Tick
  \/ SyncStart
  \/ SyncStop
  \/ \E id \in SyncJobSet : SyncTimerFire(id)
  \/ \E id \in SyncJobSet : SyncSucceed(id)
  \/ \E id \in SyncJobSet : SyncFail(id)

(***************************************************************************)
(* ResultCollector.  A collection cycle is suspended at                    *)
(* await getTodaySchedule(); when the schedule arrives the cycle runs to   *)
(* its end in microtasks, giving way at each await processRaceResult() to  *)
(* the other cycles whose schedule arrived in the same turn.               *)
(***************************************************************************)
\* races of the day as getTodaySchedule() reports them: key is
\* meeting.name-raceNo, winner is "" until the race has a result
DoneRace1 == [key |-> "M-1", id |-> "r1", status |-> "completed", winner |-> "h1"]

OpenRace2 == [key |-> "M-2", id |-> "r2", status |-> "open", winner |-> ""]

DoneRace2 == [key |-> "M-2", id |-> "r2", status |-> "completed", winner |-> "h2"]

CollectorSchedules ==
  { <<>>, <<DoneRace1, OpenRace2>>, <<DoneRace1, DoneRace2>> }

\* arguments of registerPrediction
CollectorKeys == { <<"r1", "h1">>, <<"r1", "h2">>, <<"r2", "h1">> }

InitCollector ==
  /\ collectorIsRunning = FALSE
  /\ collectorTimers = 0
  /\ collectorCycles = <<>>
  /\ collectorResults = {}
  /\ collectorPredictions = <<>>
  /\ collectorMetrics =
       [ totalResultsCollected |-> 0, totalPredictionsMatched |-> 0,
         matchedAccuracy |-> [num |-> 0, den |-> 1] ]
  /\ collectorProcessedRaces = {}
  /\ collectorFeedback = <<>>

\* the fields of the collector a cycle reads and writes
CollectorState ==
  [ results |-> collectorResults,
    preds |-> collectorPredictions,
    metrics |-> collectorMetrics,
    processed |-> collectorProcessedRaces,
    feedback |-> collectorFeedback,
    timers |-> collectorTimers ]

\* matchPredictions(result): the predictions of the race, each with its
\* actualResult, in the order of the map
matchPredictions(preds, race) ==
  LET ofRace == SelectSeq(preds, LAMBDA q : q.raceId = race.id)
  IN [ i \in 1..Len(ofRace) |->
         [ raceId |-> ofRace[i].raceId,
           horseName |-> ofRace[i].horseName,
           actualResult |-> IF ofRace[i].horseName = race.winner
                            THEN "win" ELSE "loss",
           isCorrect |-> ofRace[i].horseName = race.winner ] ]

\* processRaceResult(result), with the deletions and the count of
\* matchPredictions
processRaceResult(st, race) ==
  LET matched == matchPredictions(st.preds, race) IN
  [ st EXCEPT
      !.results = @ \cup {race.id},
      !.preds = SelectSeq(@, LAMBDA q : q.raceId # race.id),
      !.feedback = @ \o [ i \in 1..Len(matched) |->
                            [ raceId |-> matched[i].raceId,
                              horseName |-> matched[i].horseName,
                              actualResult |-> matched[i].actualResult ] ],
      !.metrics.totalPredictionsMatched = @ + Len(matched),
      !.metrics.totalResultsCollected = @ + 1 ]

\* ResultCollector.updateMetrics(): correctCount is counted over the
\* predictions map
collectorUpdateMetrics(st) ==
  IF st.metrics.totalPredictionsMatched = 0 THEN st
  ELSE [ st EXCEPT !.metrics.matchedAccuracy =
           [ num |-> Len(SelectSeq(st.preds, LAMBDA q : q.isCorrect)),
             den |-> st.metrics.totalPredictionsMatched ] ]

\* the cycle returns; start() goes on after its await and sets the intervals
CycleReturns(st, cycle) ==
  [ done |-> TRUE,
    st |-> IF cycle.initial THEN [st EXCEPT !.timers = @ + 1] ELSE st ]

\* the race loop from the races todo to the next await, or to the end of the
\* cycle
RECURSIVE RaceLoop(_, _, _)
RaceLoop(st, cycle, todo) ==
  IF todo = <<>> THEN CycleReturns(collectorUpdateMetrics(st), cycle)
  ELSE LET race == Head(todo) IN
       IF race.key \in st.processed THEN RaceLoop(st, cycle, Tail(todo))
       ELSE IF race.status = "completed" /\ race.winner # ""
       THEN [ done |-> FALSE,
              st |-> processRaceResult(st, race),
              cycle |-> [cycle EXCEPT !.pc = "processing", !.key = race.key,
                                      !.todo = Tail(todo)] ]
       ELSE RaceLoop(st, cycle, Tail(todo))

\* one microtask of a cycle: from the await it was suspended at to the next
RunCycle(st, cycle) ==
  IF cycle.pc = "fetch"
  THEN IF cycle.todo = <<>> THEN CycleReturns(st, cycle)
       ELSE RaceLoop(st, cycle, cycle.todo)
  ELSE RaceLoop([st EXCEPT !.processed = @ \cup {cycle.key}], cycle, cycle.todo)

\* the microtask queue runs empty: the cycles take turns in the order they
\* were queued
RECURSIVE Drain(_, _)
Drain(st, queue) ==
  IF queue = <<>> THEN st
  ELSE LET r == RunCycle(st, Head(queue)) IN
       IF r.done THEN Drain(r.st, Tail(queue))
       ELSE Drain(r.st, Append(Tail(queue), r.cycle))

\* the cycles of wake, in the order they were started, resumed with schedule
Resumed(wake, schedule) ==
  LET idx == SelectSeq([i \in 1..Len(collectorCycles) |-> i], LAMBDA i : i \in wake)
  IN [ k \in 1..Len(idx) |->
         [ initial |-> collectorCycles[idx[k]].initial, pc |-> "fetch",
           key |-> "", todo |-> schedule ] ]

Suspended(wake) ==
  LET idx == SelectSeq([i \in 1..Len(collectorCycles) |-> i], LAMBDA i : i \notin wake)
  IN [ k \in 1..Len(idx) |-> collectorCycles[idx[k]] ]

\* start(): the guard, isRunning = true and the initial runCollectionCycle()
\* up to its await
CollectorStart ==
  /\ ~collectorIsRunning
  /\ Len(collectorCycles) < MaxCycles
  /\ collectorTimers
       + Cardinality({i \in 1..Len(collectorCycles) : collectorCycles[i].initial})
       < MaxTimers
  /\ collectorIsRunning' = TRUE
  /\ collectorCycles' = Append(collectorCycles, [initial |-> TRUE])
  /\ UNCHANGED <<collectorTimers, collectorResults, collectorPredictions,
                 collectorMetrics, collectorProcessedRaces, collectorFeedback>>
  /\ CollectorFrame

CollectorStop ==
  /\ collectorIsRunning' = FALSE
  /\ UNCHANGED <<collectorTimers, collectorCycles, collectorResults,
                 collectorPredictions, collectorMetrics, collectorProcessedRaces,
                 collectorFeedback>>
  /\ CollectorFrame

\* the collection interval fires: runCollectionCycle() up to its await
CollectorTimerFire ==
  /\ collectorTimers > 0
  /\ Len(collectorCycles) < MaxCycles
  /\ collectorCycles' = Append(collectorCycles, [initial |-> FALSE])
  /\ UNCHANGED <<collectorIsRunning, collectorTimers, collectorResults,
                 collectorPredictions, collectorMetrics, collectorProcessedRaces,
                 collectorFeedback>>
  /\ CollectorFrame

\* getTodaySchedule() resolves, in one turn of the event loop, for the cycles
\* of wake (one cycle, or several whose calls one response answers), and the
\* microtasks run until each of them has returned
CollectorScheduleResolves(wake, schedule) ==
  /\ wake # {}
  /\ \E st \in {Drain(CollectorState, Resumed(wake, schedule))} :
       /\ collectorResults' = st.results
       /\ collectorPredictions' = st.preds
       /\ collectorMetrics' = st.metrics
       /\ collectorProcessedRaces' = st.processed
       /\ collectorFeedback' = st.feedback
       /\ collectorTimers' = st.timers
  /\ collectorCycles' = Suspended(wake)
  /\ UNCHANGED collectorIsRunning
  /\ CollectorFrame

\* getTodaySchedule() rejects: the catch of runCollectionCycle logs it
CollectorFetchFail(i) ==
  /\ collectorCycles' = Suspended({i})
  /\ collectorTimers' =
       IF collectorCycles[i].initial THEN collectorTimers + 1 ELSE collectorTimers
  /\ UNCHANGED <<collectorIsRunning, collectorResults, collectorPredictions,
                 collectorMetrics, collectorProcessedRaces, collectorFeedback>>
  /\ CollectorFrame

\* registerPrediction(raceId, horseName, ...): predictions.set(key, record)
registerPrediction(raceId, horseName) ==
  LET record == [raceId |-> raceId, horseName |-> horseName, isCorrect |-> FALSE]
      held == \E i \in 1..Len(collectorPredictions) :
                /\ collectorPredictions[i].raceId = raceId
                /\ collectorPredictions[i].horseName = horseName
  IN
  /\ collectorPredictions' =
       IF held THEN collectorPredictions ELSE Append(collectorPredictions, record)
  /\ UNCHANGED <<collectorIsRunning, collectorTimers, collectorCycles,
                 collectorResults, collectorMetrics, collectorProcessedRaces,
                 collectorFeedback>>
  /\ CollectorFrame

NextCollector ==
  \/ CollectorStart
  \/ CollectorStop
  \/ CollectorTimerFire
  \/ \E wake \in SUBSET (1..Len(collectorCycles)), sch \in CollectorSchedules :
       CollectorScheduleResolves(wake, sch)
  \/ \E i \in 1..Len(collectorCycles) : CollectorFetchFail(i)
  \/ \E k \in CollectorKeys : registerPrediction(k[1], k[2])

Init ==
  /\ InitEngine /\ InitValidator /\ InitAgent /\ InitEnsemble /\ InitSync
  /\ InitCollector

\* the engine driven by manual requests for single models
Next ==
  \/ Tick
  \/ \E u \in CooldownUpdates : updateConfig(u)
  \/ \E m \in ModelNameChoices : ManualTrigger(m)
  \/ \E i \in 1..Len(retrainingJobs), p \in ImprovementChoices : JobComplete(i, p)
  \/ \E i \in 1..Len(retrainingJobs), e \in ErrorMessages : JobFail(i, e)

Spec == Init /\ [][Next]_vars

\* the training step of job i returns or throws
JobEnds(i) ==
  /\ i \in DOMAIN retrainingJobs
  /\ \/ \E p \in ImprovementChoices : JobComplete(i, p)
     \/ \E e \in ErrorMessages : JobFail(i, e)

\* the engine under requests for all models
NextLive ==
  \/ Tick
  \/ ManualTriggerAll
  \/ \E i \in 1..Len(retrainingJobs), p \in ImprovementChoices : JobComplete(i, p)
  \/ \E i \in 1..Len(retrainingJobs), e \in ErrorMessages : JobFail(i, e)

\* the same, where the timer of line 159 (or the training step in its place)
\* ends for every job
SpecLive ==
  /\ Init
  /\ [][NextLive]_vars
  /\ \A i \in 1..MaxJobs : WF_vars(JobEnds(i))

\* the engine driven by its interval timer and by requests for all models,
\* within one hour of the clock: the cooldown of retrain_interval_hours (24)
\* never expires here, so the time stamps would only repeat every state
NextCheck ==
  \/ \E m \in CheckMetrics : recordPrediction(m, MaxPredictions)
  \/ \E u \in GateUpdates : updateConfig(u)
  \/ initialize
  \/ stop
  \/ checkAndRetrain
  \/ optimizeWeights
  \/ ManualTriggerAll
  \/ \E i \in 1..Len(retrainingJobs), p \in ImprovementChoices : JobComplete(i, p)
  \/ \E i \in 1..Len(retrainingJobs), e \in ErrorMessages : JobFail(i, e)

SpecCheck == Init /\ [][NextCheck]_vars

NextMetrics ==
  \/ \E m \in WeightMetrics : recordPrediction(m, MaxModelPredictions)
  \/ optimizeWeights

SpecMetrics == Init /\ [][NextMetrics]_vars

SpecValidator == Init /\ [][NextValidator]_vars

SpecAgent == Init /\ [][NextAgent]_vars

SpecEnsemble == Init /\ [][NextEnsemble]_vars

SpecSync == Init /\ [][NextSync]_vars

SpecCollector == Init /\ [][NextCollector]_vars

(***************************************************************************)
(* Properties of the AutoRetrainingEngine                                  *)
(***************************************************************************)
AllowedTransitions ==
  { <<"pending", "running">>, <<"running", "completed">>, <<"running", "failed">> }

JobStatusStep ==
  /\ Len(retrainingJobs') >= Len(retrainingJobs)
  /\ \A i \in 1..Len(retrainingJobs) :
       retrainingJobs'[i].status # retrainingJobs[i].status
         => <<retrainingJobs[i].status, retrainingJobs'[i].status>> \in AllowedTransitions
  /\ \A i \in (Len(retrainingJobs) + 1)..Len(retrainingJobs') :
       retrainingJobs'[i].status \in {"pending", "running"}

\* C1: a job's status only ever moves pending -> running, running -> completed
\* or running -> failed; a completed or failed job never changes status again,
\* and a job enters the list pending or (once its execution started) running.
C1_JobStateMachine == [][JobStatusStep]_vars

\* C1 witness: a completed job, a failed job and a running job side by side.
C1_Witness ==
  \E i, j, k \in 1..Len(retrainingJobs) :
    /\ retrainingJobs[i].status = "completed"
    /\ retrainingJobs[j].status = "failed"
    /\ retrainingJobs[k].status = "running"

\* jobs of model m started less than one retrain interval before time t
JobsInWindow(jobs, m, t) ==
  { k \in 1..Len(jobs) :
      /\ jobs[k].model_name = m
      /\ t - jobs[k].started_at < config.retrain_interval_hours }

RetrainCapStep ==
  \A m \in ModelSet :
    (\E k \in (Len(retrainingJobs) + 1)..Len(retrainingJobs') :
        retrainingJobs'[k].model_name = m)
      => Cardinality(JobsInWindow(retrainingJobs', m, now))
           <= config.max_retrain_frequency

\* C2: a request never creates a job for a model that already has
\* max_retrain_frequency jobs started within the current retrain interval; with
\* max_retrain_frequency = 1 a second request inside the window, also one made
\* while the first job is still running, creates no job.
C2_RetrainCap == [][RetrainCapStep]_vars

FailureStep ==
  /\ \A i \in 1..Len(retrainingJobs) :
       (/\ i <= Len(retrainingJobs')
        /\ retrainingJobs[i].status # "failed"
        /\ retrainingJobs'[i].status = "failed")
         => /\ retrainingJobs[i].status = "running"
            /\ lastRetrainingTime' = lastRetrainingTime
            /\ Len(retrainingJobs') = Len(retrainingJobs)
  /\ \A i \in 1..Len(retrainingJobs') :
       retrainingJobs'[i].status = "failed"
         => /\ retrainingJobs'[i].error_message # NoError
            /\ retrainingJobs'[i].completed_at # NoDate

\* C8: the step in which a job fails sets error_message and completed_at,
\* leaves every model's last-retrained time as it was and adds no job.
C8_FailureIsFinal == [][FailureStep]_vars

\* C8 witness: a failed job, with its error, of a model never retrained.
C8_Witness ==
  \E i \in 1..Len(retrainingJobs) :
    /\ retrainingJobs[i].status = "failed"
    /\ retrainingJobs[i].error_message # NoError
    /\ lastRetrainingTime[retrainingJobs[i].model_name] = NoDate

\* C5 as stated: every check issues a schedule trigger unless it issues a
\* performance_drop trigger, whatever the number of recorded predictions.
C5_ScheduleAlways ==
  lastCheck.ran =>
    ("performance_drop" \notin lastCheck.issued => "schedule" \in lastCheck.issued)

\* C5 amended: a check that read fewer predictions than
\* min_predictions_before_retrain issues no trigger at all; a check that read
\* at least that many issues a schedule trigger unless it issues
\* performance_drop.
C5_ScheduleWhenSampled ==
  lastCheck.ran =>
    IF lastCheck.predictions_count < lastCheck.min_predictions
    THEN lastCheck.issued = {}
    ELSE ("performance_drop" \notin lastCheck.issued => "schedule" \in lastCheck.issued)

\* C5 witness: a check with enough predictions that issued the schedule trigger.
C5_Witness ==
  /\ lastCheck.ran
  /\ lastCheck.predictions_count >= lastCheck.min_predictions
  /\ lastCheck.predictions_count > 0
  /\ lastCheck.issued = {"schedule"}

\* C6: performance_drop is issued only by a check that read at least
\* min_predictions_before_retrain predictions; such a check with top-1 accuracy
\* below the threshold issues performance_drop alone; no check issues two
\* trigger types.
C6_PerformanceDropGate ==
  lastCheck.ran =>
    /\ "performance_drop" \in lastCheck.issued
         => lastCheck.predictions_count >= lastCheck.min_predictions
    /\ (/\ lastCheck.predictions_count >= lastCheck.min_predictions
        /\ AccuracyBelow(lastCheck, lastCheck.threshold))
         => lastCheck.issued = {"performance_drop"}
    /\ Cardinality(lastCheck.issued) <= 1

\* C6 witness: a check over a non-empty sample below the threshold issued
\* performance_drop.
C6_Witness ==
  /\ lastCheck.ran
  /\ lastCheck.predictions_count > 0
  /\ lastCheck.top1_hits > 0
  /\ lastCheck.issued = {"performance_drop"}

(***************************************************************************)
(* Properties of the AccuracyValidator                                     *)
(***************************************************************************)
\* C4: validating a race again creates no second PredictionAccuracyRecord for
\* a (prediction, result) pair: the table never holds two rows of one pair.
C4_NoDuplicateRecords ==
  \A a, b \in dbAccuracy :
    (a.predictionId = b.predictionId /\ a.raceResultId = b.raceResultId) => a = b

\* C7: when validating a race raises, the call still returns to its caller
\* and the error log ends with a high-severity event carrying the raceId.
C7_ValidationErrorsContained ==
  (lastValidation.ran /\ lastValidation.raised) =>
    /\ lastValidation.outcome = "returned"
    /\ errorLog # <<>>
    /\ errorLog[Len(errorLog)].severity = "high"
    /\ errorLog[Len(errorLog)].raceId = lastValidation.raceId

MissingDependencyStep ==
  (/\ lastValidation'.ran
   /\ lastValidation'.fault \notin {"select_predictions", "select_result"}
   /\ \/ RacePredictions(lastValidation'.raceId) = <<>>
      \/ RaceResultRows(lastValidation'.raceId) = <<>>)
    => /\ dbAccuracy' = dbAccuracy
       /\ errorLog' = errorLog
       /\ ~lastValidation'.raised
       /\ lastValidation'.outcome = "returned"

\* C9: a validatePrediction call for a race that has no predictions, or has
\* predictions but no recorded result, and whose selects succeed, inserts no
\* accuracy row, logs no error and returns normally.
C9_MissingDependencyNoOp == [][MissingDependencyStep]_vars

\* C9 witness: a race with a stored prediction was validated before its result
\* arrived, with the records of another race already in the table, and the
\* call returned.
C9_Witness ==
  /\ lastValidation.ran
  /\ lastValidation.fault = "none"
  /\ RacePredictions(lastValidation.raceId) # <<>>
  /\ RaceResultRows(lastValidation.raceId) = <<>>
  /\ lastValidation.outcome = "returned"
  /\ dbAccuracy # {}

\* C3: each periodically scheduled cycle has at most one execution in flight:
\* a timer firing while the previous run of the prediction cycle has not
\* finished does not start a second run beside it.
C3_SingleInFlightCycle == Len(agentCycles) <= 1

OutputPredictions ==
  IF ensembleOutput.status = "ok" THEN ensembleOutput.predictions ELSE <<>>

\* C11: the predictions are ordered by descending combined score, horses of
\* equal score in their input order, and the rank of each horse is its
\* position in that order.
C11_RankIsPosition ==
  \A i \in 1..Len(OutputPredictions) :
    /\ OutputPredictions[i].rank = i
    /\ \A j \in (i + 1)..Len(OutputPredictions) :
         \/ OutputPredictions[i].score > OutputPredictions[j].score
         \/ /\ OutputPredictions[i].score = OutputPredictions[j].score
            /\ OutputPredictions[i].horse_name < OutputPredictions[j].horse_name

\* C12: the ranks of the predictions of a race with N horses are a
\* permutation of 1..N.
C12_RanksArePermutation ==
  ensembleOutput.status = "ok" =>
    /\ Len(ensembleOutput.predictions) = Len(raceScores)
    /\ { ensembleOutput.predictions[i].rank : i \in 1..Len(raceScores) }
         = 1..Len(raceScores)

\* C12 witness: the output for a race of two horses with the same combined
\* score.
C12_Witness ==
  /\ ensembleOutput.status = "ok"
  /\ Len(ensembleOutput.predictions) = 2
  /\ ensembleOutput.predictions[1].score = ensembleOutput.predictions[2].score

\* the signal the betting guide gives a horse of this rank and confidence
GuideSignal(rank, confidence) ==
  IF rank = 1 /\ confidence >= 6500 THEN "STRONG_BUY"
  ELSE IF rank <= 2 /\ confidence >= 5500 THEN "BUY"
  ELSE IF rank <= 3 /\ confidence >= 5000 THEN "HOLD"
  ELSE "WAIT"

\* C13: the betting signal of a horse follows from its rank and confidence:
\* STRONG_BUY iff rank 1 and confidence >= 0.65, else BUY iff rank <= 2 and
\* confidence >= 0.55, else HOLD iff rank <= 3 and confidence >= 0.50, else
\* WAIT.
C13_SignalFromRankAndConfidence ==
  \A i \in 1..Len(OutputPredictions) :
    OutputPredictions[i].betting_signal
      = GuideSignal(OutputPredictions[i].rank, OutputPredictions[i].confidence)

\* the tier a recommended action belongs to
ActionTier(action) ==
  IF action.label = "STRONG BUY" THEN "STRONG_BUY"
  ELSE IF action.label = "BUY" THEN "BUY"
  ELSE IF action.label = "HOLD: Moderate confidence, consider smaller stake" THEN "HOLD"
  ELSE "WAIT"

\* C14: when model_agreement is at least 0.5 the recommended action of the
\* race is of the tier of the top horse's signal, at every confidence
\* including the thresholds.
C14_ActionMirrorsTopSignal ==
  (ensembleOutput.status = "ok" /\ ~BelowHalf(ensembleOutput.model_agreement))
    => /\ ensembleOutput.recommended_action # LowAgreementAction
       /\ ActionTier(ensembleOutput.recommended_action)
            = ensembleOutput.predictions[1].betting_signal

(***************************************************************************)
(* Properties of the MetricsCalculator                                     *)
(***************************************************************************)
RECURSIVE SumOfNumerators(_, _)
SumOfNumerators(weights, models) ==
  IF models = {} THEN 0
  ELSE LET m == CHOOSE x \in models : TRUE
       IN weights[m].num + SumOfNumerators(weights, models \ {m})

\* C15: with at least one recorded model, calculateOptimalWeights gives each
\* model a weight that is a number and not negative, and the weights sum to 1.
C15_WeightsAreADistribution ==
  predictions # <<>> =>
    LET weights == calculateOptimalWeights
        den == weights[CHOOSE m \in MetricModels : TRUE].den
    IN /\ DOMAIN weights = MetricModels
       /\ \A m \in MetricModels :
            weights[m].den = den /\ den > 0 /\ weights[m].num >= 0
       /\ SumOfNumerators(weights, MetricModels) = den

(***************************************************************************)
(* Properties of the stored PredictionAccuracyRecords                      *)
(***************************************************************************)
PredictionOf(record) == CHOOSE p \in PredictionRows : p.id = record.predictionId

ResultOf(record) == CHOOSE r \in ResultRows : r.id = record.raceResultId

\* C16: the top-3 flag of a record is true only when the predicted first
\* three horses are the actual first three finishers, in the same order.
C16_Top3IsExactOrder ==
  \A a \in dbAccuracy :
    a.top3Accuracy =>
      FirstN(HorsesOf(PredictionOf(a).predictedRankings), 3)
        = FirstN(HorsesOf(ResultOf(a).actualRankings), 3)

\* C17: horse names are joined case-insensitively and without surrounding
\* whitespace: the top-pick flag of a record is that of the normalised names.
C17_NamesAreNormalised ==
  \A a \in dbAccuracy :
    a.topPickCorrect
      <=> normalizeHorseName(PredictionOf(a).topPick)
            = normalizeHorseName(ResultOf(a).winner)

\* the odds the winner of a result paid
WinningOdds(result) ==
  result.actualRankings[FirstIndexOf(result.actualRankings, result.winner)].odds

\* C18: the betting outcome of a record is no_bet with profit 0 when the
\* signal of its prediction is WAIT, avoid or absent; otherwise win with
\* profit stake x (winning odds - 1) when the top pick won, and loss with
\* profit -stake when it did not.
C18_BettingOutcome ==
  \A a \in dbAccuracy :
    IF PredictionOf(a).bettingSignal \in {"WAIT", "avoid", ""}
    THEN a.bettingOutcome = "no_bet" /\ a.profitLoss = 0
    ELSE IF a.topPickCorrect
    THEN /\ a.bettingOutcome = "win"
         /\ a.profitLoss = Stake * (WinningOdds(ResultOf(a)) - 10)
    ELSE a.bettingOutcome = "loss" /\ a.profitLoss = 0 - Stake * 10

\* the horses of a record's prediction that also ran, in predicted order
CommonHorses(record) ==
  SelectSeq(HorsesOf(PredictionOf(record).predictedRankings),
            LAMBDA h : HasHorse(ResultOf(record).actualRankings, h))

\* whether the common horses, taken by predicted rank, finished in that
\* order (sign 1) or in the reverse of it (sign -1)
SameOrder(record, sign) ==
  LET common == CommonHorses(record) IN
  \A i, j \in 1..Len(common) :
    PredictedRank(PredictionOf(record), common[i])
      < PredictedRank(PredictionOf(record), common[j])
    => sign * ActualRank(ResultOf(record), common[i])
         < sign * ActualRank(ResultOf(record), common[j])

\* C19: the rank correlation of a record lies in [-1, 1]; it is 0 with fewer
\* than two common horses, 1 when the common horses finished in the predicted
\* order and -1 when they finished in the reverse order, also when horses
\* between them are missing from the prediction or the result.
C19_RankCorrelation ==
  \A a \in dbAccuracy :
    LET rho == a.rankCorrelation IN
    /\ rho.den > 0 /\ 0 - rho.den <= rho.num /\ rho.num <= rho.den
    /\ IF Len(CommonHorses(a)) < 2 THEN rho.num = 0
       ELSE /\ SameOrder(a, 1) => rho.num = rho.den
            /\ SameOrder(a, -1) => rho.num = 0 - rho.den

(***************************************************************************)
(* Properties of the retraining job history                                *)
(***************************************************************************)
AppendOnlyStep ==
  /\ Len(retrainingJobs') >= Len(retrainingJobs)
  /\ \A i \in 1..Len(retrainingJobs) :
       /\ retrainingJobs'[i].job_id = retrainingJobs[i].job_id
       /\ retrainingJobs'[i].model_name = retrainingJobs[i].model_name
       /\ retrainingJobs'[i].triggered_by = retrainingJobs[i].triggered_by

\* C20: the job history is append-only: no step of the engine shortens the
\* list of jobs, removes or reorders a job, or changes the job_id, model_name
\* or triggered_by of a job already in it.
C20_HistoryAppendOnly == [][AppendOnlyStep]_vars

\* C20 witness: the engine was stopped with finished jobs in its history, and
\* they are still there.
C20_Witness ==
  /\ ~retrainingSchedule
  /\ Len(retrainingJobs) = MaxJobs
  /\ \E i, j \in 1..Len(retrainingJobs) :
       /\ retrainingJobs[i].status = "completed"
       /\ retrainingJobs[j].status = "failed"
       /\ retrainingJobs[i].triggered_by = "schedule"

(***************************************************************************)
(* Properties of the metrics queries                                       *)
(***************************************************************************)
AllInCooldown == \A m \in ModelSet : InCooldown(m)

\* a step in which optimizeWeights (calculateOptimalWeights,
\* getAllModelPerformance, getModelPerformance) or checkAndRetrain's
\* getEnsembleMetrics was called
QueryStep == lastCheck'.optimized \/ (lastCheck'.ran /\ lastCheck'.issued = {})

\* C21: weight optimisation and the metrics queries are free of side effects:
\* a step that only runs them creates no retraining job, leaves every model's
\* last-retrained time and the recorded prediction metrics unchanged, and
\* optimizeWeights can be called in every state, cooldown or not.
C21_QueriesAreReadOnly ==
  [][ /\ QueryStep =>
           /\ retrainingJobs' = retrainingJobs
           /\ lastRetrainingTime' = lastRetrainingTime
           /\ predictions' = predictions
      /\ ENABLED optimizeWeights ]_vars

\* C21 witness: weights were returned while every model was in its cooldown
\* and records were held.
C21_Witness ==
  /\ lastCheck.optimized
  /\ lastCheck.weights # {}
  /\ AllInCooldown
  /\ predictions # <<>>

(***************************************************************************)
(* Properties of the EnsemblePredictor input checks                        *)
(***************************************************************************)
\* C22: predictRace returns an output with predictions, a confidence and a
\* recommendation only for a race of at least 2 horses.
C22_SmallFieldRejected ==
  ensembleOutput.status = "ok" => Len(raceScores) >= 2

(***************************************************************************)
(* Properties of the SimpleSyncScheduler                                   *)
(***************************************************************************)
\* the step is a call of kind call for job id
SyncCallStep(call, id) ==
  /\ lastSync'.call = call
  /\ lastSync'.job = id
  /\ lastSync' # lastSync \/ syncJobs' # syncJobs \/ syncInFlight' # syncInFlight

\* C23: executeJob called for a job whose status is running returns without
\* running the body and without changing status, lastRun or errorCount, so no
\* job id ever has more than one execution in flight; of the two immediate
\* executions of sync-today that start() issues, the second is skipped.
C23_OneExecutionPerJob ==
  [][ /\ \A id \in SyncJobSet : syncInFlight'[id] <= 1
      /\ \A id \in SyncJobSet :
           (SyncCallStep("timer", id) /\ syncJobs[id].status = "running") =>
             /\ lastSync'.skipped = <<TRUE>>
             /\ syncJobs'[id] = syncJobs[id]
             /\ syncInFlight'[id] = syncInFlight[id]
      /\ (SyncCallStep("start", "") /\ ~syncIsInitialized) =>
           /\ Len(lastSync'.skipped) = 4
           /\ lastSync'.skipped[4] ]_vars

\* C23 witness: a timer found its job running and skipped it, an hour after
\* the execution in flight began.
C23_Witness ==
  /\ lastSync.call = "timer"
  /\ lastSync.skipped = <<TRUE>>
  /\ syncInFlight[lastSync.job] = 1
  /\ syncJobs[lastSync.job].status = "running"
  /\ syncJobs[lastSync.job].lastRun < now

\* C24: a failing job body is contained by executeJob (the scheduler keeps its
\* timers and the job ends idle or failed); a failed job is executed again by
\* its next timer tick; a successful run makes the job idle with errorCount 0.
C24_FailedIsRetried ==
  [][ \A id \in SyncJobSet :
        /\ SyncCallStep("rejected", id) =>
             /\ syncTimers' = syncTimers
             /\ syncIsInitialized' = syncIsInitialized
             /\ syncJobs'[id].status \in {"idle", "failed"}
        /\ (syncJobs[id].status = "failed" /\ id \in syncTimers) =>
             ENABLED SyncTimerFire(id)
        /\ (SyncCallStep("timer", id) /\ syncJobs[id].status = "failed") =>
             /\ lastSync'.skipped = <<FALSE>>
             /\ syncJobs'[id].status = "running"
             /\ syncInFlight'[id] = 1
        /\ SyncCallStep("resolved", id) =>
             /\ syncJobs'[id].status = "idle"
             /\ syncJobs'[id].errorCount = 0 ]_vars

\* C24 witness: a job that failed maxRetries times in a row is running again.
C24_Witness ==
  \E id \in SyncJobSet :
    /\ syncJobs[id].status = "running"
    /\ syncJobs[id].errorCount >= syncJobs[id].maxRetries
    /\ lastSync = [call |-> "timer", job |-> id, skipped |-> <<FALSE>>]

\* C26: for every job, idle implies errorCount < maxRetries, failed implies
\* errorCount >= maxRetries, and errorCount is 0 right after a successful run.
C26_ErrorCountMatchesStatus ==
  \A id \in SyncJobSet :
    /\ syncJobs[id].status = "idle" => syncJobs[id].errorCount < syncJobs[id].maxRetries
    /\ syncJobs[id].status = "failed" => syncJobs[id].errorCount >= syncJobs[id].maxRetries
    /\ (lastSync.call = "resolved" /\ lastSync.job = id) => syncJobs[id].errorCount = 0

\* C26 witness: one job failed with more errors than maxRetries, another idle
\* with errors short of it, a third just succeeded.
C26_Witness ==
  /\ syncJobs["sync-today"].status = "failed"
  /\ syncJobs["sync-today"].errorCount > syncJobs["sync-today"].maxRetries
  /\ syncJobs["sync-tomorrow"].status = "idle"
  /\ syncJobs["sync-tomorrow"].errorCount = 2
  /\ lastSync.call = "rejected"

(***************************************************************************)
(* Properties of the execution of retraining jobs                          *)
(***************************************************************************)
JobFinished(i) ==
  /\ i \in DOMAIN retrainingJobs
  /\ retrainingJobs[i].status \in {"completed", "failed"}

\* a job of model completes successfully in this step
CompletesNow(model) ==
  \E i \in DOMAIN retrainingJobs :
    /\ retrainingJobs[i].model_name = model
    /\ retrainingJobs[i].status = "running"
    /\ retrainingJobs'[i].status = "completed"

\* C25: every job created by triggerRetraining eventually is completed or
\* failed, given that its training step returns or throws; and the
\* last-retrained time of a model is written exactly in the steps in which
\* one of its jobs completes successfully (then it is the current time).
C25_JobsTerminate ==
  /\ \A i \in 1..MaxJobs : (i \in DOMAIN retrainingJobs) ~> JobFinished(i)
  /\ [][ \A m \in ModelSet :
           /\ CompletesNow(m) => lastRetrainingTime'[m] = now
           /\ ~CompletesNow(m) => lastRetrainingTime'[m] = lastRetrainingTime[m] ]_vars

\* C25 witness: a job completed and one of another model failed; only the
\* first model has a last-retrained time.
C25_Witness ==
  \E i, j \in DOMAIN retrainingJobs :
    /\ retrainingJobs[i].status = "completed"
    /\ retrainingJobs[j].status = "failed"
    /\ retrainingJobs[i].model_name # retrainingJobs[j].model_name
    /\ lastRetrainingTime[retrainingJobs[i].model_name] = retrainingJobs[i].completed_at
    /\ lastRetrainingTime[retrainingJobs[j].model_name] = NoDate

(***************************************************************************)
(* Properties of the ContinuousPredictionAgent                             *)
(***************************************************************************)
\* C28: once the agent is stopped no further prediction cycle starts, and the
\* agent never has more than one recurring timer.
C28_StopHaltsCycles ==
  [][ /\ ~agentIsRunning' => Len(agentCycles') <= Len(agentCycles)
      /\ agentTimers' <= 1 ]_vars

\* C29: correctPredictions never exceeds totalPredictions.
C29_CorrectWithinTotal ==
  agentMetrics.correctPredictions <= agentMetrics.totalPredictions

(***************************************************************************)
(* Properties of the ResultCollector                                       *)
(***************************************************************************)
FeedbackWins == Len(SelectSeq(collectorFeedback, LAMBDA f : f.actualResult = "win"))

\* C27: each completed race is processed at most once: no more results are
\* counted than there are races processed, and no prediction of a race is fed
\* back twice.
C27_RaceProcessedOnce ==
  /\ collectorMetrics.totalResultsCollected <= Cardinality(collectorProcessedRaces)
  /\ \A i, j \in 1..Len(collectorFeedback) :
       (/\ collectorFeedback[i].raceId = collectorFeedback[j].raceId
        /\ collectorFeedback[i].horseName = collectorFeedback[j].horseName) => i = j

\* C30: after a collection cycle in which predictions were matched,
\* matchedAccuracy is the number of matched predictions whose horse won,
\* divided by totalPredictionsMatched.
C30_MatchedAccuracy ==
  [][ collectorMetrics'.totalPredictionsMatched
        > collectorMetrics.totalPredictionsMatched =>
      collectorMetrics'.matchedAccuracy.num * collectorMetrics'.totalPredictionsMatched
        = FeedbackWins' * collectorMetrics'.matchedAccuracy.den ]_vars

====
